---- MODULE Spec2Model ----
(***************************************************************************)
(* Model of streamlit_app.py: the "Generate Image" button handler and the  *)
(* generation client call_flux_api (submit, bounded poll loop, image       *)
(* fetch).  The remote service is the environment: every HTTP call draws   *)
(* its reply from a finite set of replies.  Time is counted in tenths of   *)
(* a time-unit, so the 0.5 sleep is 5.                                     *)
(***************************************************************************)
EXTENDS Integers, Sequences, FiniteSets, TLC

VARIABLES
    pc,            \* position of the script: idle, submit, loop, poll, fetch, done
    prompt,        \* st.text_area "Describe your image"
    aspect_ratio,  \* st.selectbox "Aspect Ratio"
    payload,       \* JSON body built by call_flux_api (prompt, width, height)
    response,      \* local response: the reply to the submission
    request_id,    \* local request_id
    attempt,       \* number of loop iterations started
    result,        \* local result: the last decoded status reply
    img_url,       \* local img_url
    image,         \* first component of the returned tuple
    error,         \* second component of the returned tuple
    returns,       \* number of return statements executed by call_flux_api
    shown,         \* what the page shows after the handler: nothing, validation, error, success
    posts,         \* submission requests issued
    polls,         \* status-poll requests issued
    pollIds,       \* the ids carried by the status polls
    fetches,       \* the URLs of the image fetches issued, in order
    sleeps,        \* number of time.sleep calls
    elapsed,       \* total time slept, in tenths of a time-unit
    statusWrites,  \* number of st.write(f"Status: ...") lines emitted
    img_response,  \* reply of the image fetch
    poll_response  \* reply of the last status poll

vars == <<pc, prompt, aspect_ratio, payload, response, request_id, attempt, result, img_url,
          image, error, returns, shown, posts, polls, pollIds, fetches, sleeps,
          elapsed, statusWrites, img_response, poll_response>>

(* ------------------------------ bounds --------------------------------- *)

\* longest `samples` list the service answers with
MaxSamples == 2

(* ----------------------------- constants ------------------------------- *)

max_attempts == 60

\* time.sleep(0.5), in tenths of a time-unit
poll_interval == 5

(* --------------------------- Python values ----------------------------- *)

None == [py |-> "None"]
Unbound == [py |-> "unbound"]
NoPayload == [prompt |-> "", width |-> 0, height |-> 0]
NoReply == [ok |-> FALSE, sent |-> FALSE]

\* bool(v) as used by `if not prompt`, `if error`, `elif image`
Truthy(v) == IF v = None THEN FALSE
             ELSE IF v.py = "str" THEN v.text # ""
             ELSE TRUE

(* ------------------------------ widgets -------------------------------- *)

Prompts == {"", "a clock tower at dusk"}

AspectOptions == {"Square (1:1)", "Portrait (3:4)", "Landscape (4:3)",
                  "Wide (16:9)", "Tall (9:16)"}

\* Portrait and Landscape swapped
AspectSizeSwapped(a) ==
    IF a = "Square (1:1)" THEN <<1024, 1024>>
    ELSE IF a = "Portrait (3:4)" THEN <<1024, 768>>
    ELSE IF a = "Landscape (4:3)" THEN <<768, 1024>>
    ELSE IF a = "Wide (16:9)" THEN <<1024, 576>>
    ELSE <<576, 1024>>

\* width, height = ... chain on aspect_ratio
AspectSize(a) ==
    IF a = "Square (1:1)" THEN <<1024, 1024>>
    ELSE IF a = "Portrait (3:4)" THEN <<768, 1024>>
    ELSE IF a = "Landscape (4:3)" THEN <<1024, 768>>
    ELSE IF a = "Wide (16:9)" THEN <<1024, 576>>
    ELSE <<576, 1024>>

(* ------------------------ replies of the service ----------------------- *)

JobIds == {"job-1", "job-2"}
URLs == {"https://img/a", "https://img/b"}

\* a requests call that raises requests.exceptions.ConnectionError
ConnectionError == [ok |-> FALSE, sent |-> TRUE]

\* a reply whose body is not JSON / is the JSON object v
TextReply(code) == [ok |-> TRUE, status_code |-> code, parses |-> FALSE]
JsonReply(code, v) == [ok |-> TRUE, status_code |-> code, parses |-> TRUE, value |-> v]

Is2xx(r) == r.status_code >= 200 /\ r.status_code < 300

SubmitObjects == {[id |-> j] : j \in JobIds} \cup {[detail |-> "Forbidden"]}

SubmitReplies ==
    {ConnectionError}
    \cup {TextReply(c) : c \in {200, 500}}
    \cup {JsonReply(c, v) : c \in {200, 403}, v \in SubmitObjects}

SampleLists == UNION {[1..n -> URLs] : n \in 0..MaxSamples}

ResultPayloads ==
    {[seed |-> 7]}
    \cup {[sample |-> u] : u \in URLs}
    \cup {[samples |-> s] : s \in SampleLists}
    \cup {[sample |-> u, samples |-> s] : u \in URLs, s \in SampleLists}

PollObjects ==
    {[detail |-> "Not Found"]}
    \cup {[status |-> s] : s \in {"Pending", "Processing", "Ready", "Failed"}}
    \cup {[status |-> "Failed", error |-> "bad prompt"]}
    \cup {[status |-> "Ready", result |-> p] : p \in ResultPayloads}

PollReplies ==
    {ConnectionError}
    \cup {TextReply(c) : c \in {200, 502}}
    \cup {JsonReply(c, v) : c \in {200, 500}, v \in PollObjects}

ImageBytes == {"png-bytes"}
Contents == ImageBytes \cup {"<html>"}

FetchReplies ==
    {ConnectionError}
    \cup {[ok |-> TRUE, status_code |-> c, content |-> b] : c \in {200, 404}, b \in Contents}

(* ------------------------------ messages ------------------------------- *)

Str(t) == [py |-> "str", text |-> t]
StrArg(t, a) == [py |-> "str", text |-> t, arg |-> a]
StrJson(t, j) == [py |-> "str", text |-> t, json |-> j]
StrResponse(t, a, r) == [py |-> "str", text |-> t, arg |-> a, response |-> r]

\* PIL's Image.open on the fetched bytes
PILImage(b) == [py |-> "Image", content |-> b]

(* ------------------------------- state --------------------------------- *)

Init ==
    /\ pc = "idle"
    /\ prompt \in Prompts
    /\ aspect_ratio \in AspectOptions
    /\ payload = NoPayload
    /\ response = NoReply
    /\ request_id = "<unbound>"
    /\ attempt = 0
    /\ result = Unbound
    /\ img_url = "<unbound>"
    /\ image = Unbound
    /\ error = Unbound
    /\ returns = 0
    /\ shown = "nothing"
    /\ posts = 0
    /\ polls = 0
    /\ pollIds = {}
    /\ fetches = <<>>
    /\ sleeps = 0
    /\ elapsed = 0
    /\ statusWrites = 0
    /\ img_response = NoReply
    /\ poll_response = NoReply

\* `return img, err` of call_flux_api, followed by the handler's display:
\* if error: st.error(...) elif image: st.success(...)
Return(img, err) ==
    /\ image' = img
    /\ error' = err
    /\ returns' = returns + 1
    /\ shown' = IF Truthy(err) THEN "error"
                ELSE IF Truthy(img) THEN "success" ELSE "nothing"
    /\ pc' = "done"

(* --------------------------- button handler ---------------------------- *)

\* if not prompt: st.error("Please enter a prompt first!")
ClickEmptyPrompt ==
    /\ pc = "idle"
    /\ ~Truthy(Str(prompt))
    /\ shown' = "validation"
    /\ pc' = "done"
    /\ UNCHANGED <<prompt, aspect_ratio, payload, response, request_id, attempt, result, img_url,
                   image, error, returns, posts, polls, pollIds, fetches, sleeps,
                   elapsed, statusWrites, img_response, poll_response>>

\* the prompt check missing: the client is called whatever the prompt
ClickGenerateUnchecked ==
    /\ pc = "idle"
    /\ payload' = [prompt |-> prompt,
                   width |-> AspectSize(aspect_ratio)[1],
                   height |-> AspectSize(aspect_ratio)[2]]
    /\ pc' = "submit"
    /\ UNCHANGED <<prompt, aspect_ratio, response, request_id, attempt, result, img_url,
                   image, error, returns, shown, posts, polls, pollIds, fetches,
                   sleeps, elapsed, statusWrites, img_response, poll_response>>

\* else: call_flux_api(prompt=prompt, width=width, height=height, ...)
ClickGenerate ==
    /\ pc = "idle"
    /\ Truthy(Str(prompt))
    /\ payload' = [prompt |-> prompt,
                   width |-> AspectSize(aspect_ratio)[1],
                   height |-> AspectSize(aspect_ratio)[2]]
    /\ pc' = "submit"
    /\ UNCHANGED <<prompt, aspect_ratio, response, request_id, attempt, result, img_url,
                   image, error, returns, shown, posts, polls, pollIds, fetches,
                   sleeps, elapsed, statusWrites, img_response, poll_response>>

(* ------------------------- phase 1: submission ------------------------- *)

\* str(e) of the HTTPError raised by raise_for_status
HTTPErrorText(r) == IF r.status_code >= 500 THEN "Server Error" ELSE "Client Error"

\* the body never parsed: always str(e)
APIErrorMessageRaw(r) == StrArg("API Error: ", HTTPErrorText(r))

\* except requests.exceptions.HTTPError as e: parsed body, else str(e)
APIErrorMessage(r) ==
    IF r.parses THEN StrJson("API Error: ", r.value)
    ELSE StrArg("API Error: ", HTTPErrorText(r))

\* except Exception as e: return None, f"Unexpected error: {str(e)}"
UnexpectedError(e) == StrArg("Unexpected error: ", e)

\* the id check missing: request_data.get("id") is taken as it comes
OnMissingIdPolls ==
    /\ request_id' = "None"
    /\ pc' = "loop"
    /\ UNCHANGED <<image, error, returns, shown>>

\* if "id" not in request_data: return None, "No request ID in response"
OnMissingId ==
    /\ Return(None, Str("No request ID in response"))
    /\ UNCHANGED request_id

\* the id read under a wrong key: request_data.get("request_id")
OnIdWrongKey(request_data) ==
    /\ request_id' = "None"
    /\ pc' = "loop"
    /\ UNCHANGED <<image, error, returns, shown>>

\* request_id = request_data["id"]; execution enters the poll loop
OnId(request_data) ==
    /\ request_id' = request_data.id
    /\ pc' = "loop"
    /\ UNCHANGED <<image, error, returns, shown>>

\* requests.post(...); raise_for_status(); response.json(); the id check
SubmitWith(r) ==
    /\ pc = "submit"
    /\ posts' = posts + 1
    /\ response' = r
    /\ IF ~r.ok
         THEN Return(None, UnexpectedError("ConnectionError")) /\ UNCHANGED request_id
       ELSE IF ~Is2xx(r)
         THEN Return(None, APIErrorMessage(r)) /\ UNCHANGED request_id
       ELSE IF ~r.parses
         THEN Return(None, UnexpectedError("JSONDecodeError")) /\ UNCHANGED request_id
       ELSE IF "id" \notin DOMAIN r.value
         THEN OnMissingId
       ELSE OnId(r.value)
    /\ UNCHANGED <<prompt, aspect_ratio, payload, attempt, result, img_url, polls,
                   pollIds, fetches, sleeps, elapsed, statusWrites, img_response, poll_response>>

Submit == \E r \in SubmitReplies : SubmitWith(r)

(* --------------------------- phase 2: polling -------------------------- *)

\* off by one: the loop runs one iteration too many
LoopExhaustedLate == attempt > max_attempts

\* for _ in range(max_attempts): the loop is over after max_attempts iterations
LoopExhausted == attempt >= max_attempts

\* the sleep placed between attempts only: none before the first poll
SleepBetweenAttempts ==
    /\ pc = "loop"
    /\ ~LoopExhausted
    /\ attempt' = attempt + 1
    /\ sleeps' = IF attempt = 0 THEN sleeps ELSE sleeps + 1
    /\ elapsed' = IF attempt = 0 THEN elapsed ELSE elapsed + poll_interval
    /\ pc' = "poll"
    /\ UNCHANGED <<prompt, aspect_ratio, payload, response, request_id, result, img_url, image,
                   error, returns, shown, posts, polls, pollIds, fetches,
                   statusWrites, img_response, poll_response>>

\* a backoff: the n-th sleep lasts n intervals
SleepBackoff ==
    /\ pc = "loop"
    /\ ~LoopExhausted
    /\ attempt' = attempt + 1
    /\ sleeps' = sleeps + 1
    /\ elapsed' = elapsed + poll_interval * (attempt + 1)
    /\ pc' = "poll"
    /\ UNCHANGED <<prompt, aspect_ratio, payload, response, request_id, result, img_url, image,
                   error, returns, shown, posts, polls, pollIds, fetches,
                   statusWrites, img_response, poll_response>>

\* time.sleep(0.5), the first statement of every iteration
Sleep ==
    /\ pc = "loop"
    /\ ~LoopExhausted
    /\ attempt' = attempt + 1
    /\ sleeps' = sleeps + 1
    /\ elapsed' = elapsed + poll_interval
    /\ pc' = "poll"
    /\ UNCHANGED <<prompt, aspect_ratio, payload, response, request_id, result, img_url, image,
                   error, returns, shown, posts, polls, pollIds, fetches,
                   statusWrites, img_response, poll_response>>

\* the final return missing: the call falls off the end of the function
TimeoutFallsOff ==
    /\ pc = "loop"
    /\ LoopExhausted
    /\ Return(None, None)
    /\ UNCHANGED <<prompt, aspect_ratio, payload, response, request_id, attempt, result, img_url,
                   posts, polls, pollIds, fetches, sleeps, elapsed, statusWrites,
                   img_response, poll_response>>

\* the final return guarded by a test that the loop's exit never satisfies
TimeoutNeverReached ==
    /\ pc = "loop"
    /\ attempt > max_attempts
    /\ Return(None, Str("Image generation timed out"))
    /\ UNCHANGED <<prompt, aspect_ratio, payload, response, request_id, attempt, result, img_url,
                   posts, polls, pollIds, fetches, sleeps, elapsed, statusWrites,
                   img_response, poll_response>>

\* return None, "Image generation timed out"
Timeout ==
    /\ pc = "loop"
    /\ LoopExhausted
    /\ Return(None, Str("Image generation timed out"))
    /\ UNCHANGED <<prompt, aspect_ratio, payload, response, request_id, attempt, result, img_url,
                   posts, polls, pollIds, fetches, sleeps, elapsed, statusWrites,
                   img_response, poll_response>>

\* the service's error field ignored
FailedDetailGeneric(res) == "Unknown error"

\* result.get('error', 'Unknown error')
FailedDetail(res) == IF "error" \in DOMAIN res THEN res.error ELSE "Unknown error"

\* the URL chosen inside the inner try; "" stands for the exception raised there
ImgUrlError(res) ==
    IF "result" \notin DOMAIN res THEN "'result'"
    ELSE IF "sample" \in DOMAIN res.result THEN ""
    ELSE IF "samples" \notin DOMAIN res.result THEN "'samples'"
    ELSE IF Len(res.result.samples) = 0 THEN "list index out of range"
    ELSE ""

\* precedence reversed: `samples` is looked at before `sample`
ImgUrlSamplesFirst(res) ==
    IF "samples" \in DOMAIN res.result /\ Len(res.result.samples) > 0
      THEN res.result.samples[1]
      ELSE res.result.sample

\* the fallback takes the last entry of `samples`
ImgUrlLastSample(res) ==
    IF "sample" \in DOMAIN res.result THEN res.result.sample
    ELSE res.result.samples[Len(res.result.samples)]

ImgUrl(res) ==
    IF "sample" \in DOMAIN res.result THEN res.result.sample
    ELSE res.result.samples[1]

\* no inner try: the exception reaches the outer `except Exception`
ProcessingErrorEscapes(e, res) == StrArg("Unexpected error: ", e)

\* except Exception as e: return None, f"Error processing API response: ..."
ProcessingError(e, res) == StrResponse("Error processing API response: ", e, res)

\* no inner try around the URL lookup: its exception reaches `except Exception`
OnReadyNoInnerTry(res) ==
    IF ImgUrlError(res) # ""
      THEN /\ Return(None, UnexpectedError(ImgUrlError(res)))
           /\ UNCHANGED <<img_url, statusWrites>>
      ELSE /\ img_url' = ImgUrl(res)
           /\ pc' = "fetch"
           /\ UNCHANGED <<image, error, returns, shown, statusWrites>>

\* if result["status"] == "Ready": pick the URL, or fail inside the inner try
OnReady(res) ==
    IF ImgUrlError(res) # ""
      THEN /\ Return(None, ProcessingError(ImgUrlError(res), res))
           /\ UNCHANGED <<img_url, statusWrites>>
      ELSE /\ img_url' = ImgUrl(res)
           /\ pc' = "fetch"
           /\ UNCHANGED <<image, error, returns, shown, statusWrites>>

\* st.write(f"Status: {result['status']}") and on to the next iteration
OnPending(res) ==
    /\ statusWrites' = statusWrites + 1
    /\ pc' = "loop"
    /\ UNCHANGED <<img_url, image, error, returns, shown>>

\* the Failed branch missing: a Failed status is handled as a pending one
OnFailedKeepsPolling(res) == OnPending(res)

\* elif result["status"] == "Failed": return None, f"Generation failed: ..."
OnFailed(res) ==
    /\ Return(None, StrArg("Generation failed: ", FailedDetail(res)))
    /\ UNCHANGED <<img_url, statusWrites>>

\* the status read with result.get("status"): a reply without one counts as pending
OnMissingStatusPending(res) == OnPending(res)

\* result["status"] raises KeyError, caught by `except Exception`
OnMissingStatus(res) ==
    /\ Return(None, UnexpectedError("'status'"))
    /\ UNCHANGED <<img_url, statusWrites>>

\* requests.get(get_result, params={"id": request_id}).json() and the dispatch
PollWith(r) ==
    /\ pc = "poll"
    /\ polls' = polls + 1
    /\ pollIds' = pollIds \cup {request_id}
    /\ poll_response' = r
    /\ IF ~r.ok
         THEN /\ Return(None, UnexpectedError("ConnectionError"))
              /\ UNCHANGED <<result, img_url, statusWrites>>
       ELSE IF ~r.parses
         THEN /\ Return(None, UnexpectedError("JSONDecodeError"))
              /\ UNCHANGED <<result, img_url, statusWrites>>
       ELSE /\ result' = r.value
            /\ IF "status" \notin DOMAIN r.value
                 THEN OnMissingStatus(r.value)
               ELSE IF r.value.status = "Ready" THEN OnReady(r.value)
               ELSE IF r.value.status = "Failed" THEN OnFailed(r.value)
               ELSE OnPending(r.value)
    /\ UNCHANGED <<prompt, aspect_ratio, payload, response, request_id, attempt, posts, fetches,
                   sleeps, elapsed, img_response>>

Poll == \E r \in PollReplies : PollWith(r)

(* ---------------------------- image fetch ------------------------------ *)

\* the exception raised by requests.get / raise_for_status / Image.open, "" if none
FetchError(r) ==
    IF ~r.ok THEN "ConnectionError"
    ELSE IF ~Is2xx(r) THEN HTTPErrorText(r)
    ELSE IF r.content \notin ImageBytes THEN "cannot identify image file"
    ELSE ""

\* the fetch outside the inner try: its HTTPError reaches the HTTPError handler
FetchWithHTTPErrorEscapes(r) ==
    /\ pc = "fetch"
    /\ fetches' = Append(fetches, img_url)
    /\ img_response' = r
    /\ IF r.ok /\ ~Is2xx(r)
         THEN Return(None, StrArg("API Error: ", HTTPErrorText(r)))
       ELSE IF FetchError(r) # ""
         THEN Return(None, ProcessingError(FetchError(r), result))
         ELSE Return(PILImage(r.content), None)
    /\ UNCHANGED <<prompt, aspect_ratio, payload, response, request_id, attempt, result, img_url,
                   posts, polls, pollIds, sleeps, elapsed, statusWrites, poll_response>>

\* requests.get(img_url); raise_for_status(); return Image.open(...), None
FetchWith(r) ==
    /\ pc = "fetch"
    /\ fetches' = Append(fetches, img_url)
    /\ img_response' = r
    /\ IF FetchError(r) # ""
         THEN Return(None, ProcessingError(FetchError(r), result))
         ELSE Return(PILImage(r.content), None)
    /\ UNCHANGED <<prompt, aspect_ratio, payload, response, request_id, attempt, result, img_url,
                   posts, polls, pollIds, sleeps, elapsed, statusWrites, poll_response>>

Fetch == \E r \in FetchReplies : FetchWith(r)

(* ---------------------------- job lifecycle ---------------------------- *)

\* the last status reply decoded had this status
LastStatusIs(st) == "status" \in DOMAIN result /\ result.status = st

\* the call has been made (the handler reached call_flux_api)
Invoked == payload # NoPayload

\* the lifecycle state of the job, read off the client's state
JobState ==
    IF request_id = "<unbound>" THEN "None"
    ELSE IF polls = 0 THEN "Submitted"
    ELSE IF LastStatusIs("Ready") THEN "Ready"
    ELSE IF LastStatusIs("Failed") THEN "Failed"
    ELSE IF statusWrites >= 60 THEN "TimedOut"
    ELSE "Polling"

JobRank(st) ==
    IF st = "None" THEN 0
    ELSE IF st = "Submitted" THEN 1
    ELSE IF st = "Polling" THEN 2
    ELSE 3

(* --------------------------- specification ----------------------------- *)

Next ==
    \/ ClickEmptyPrompt
    \/ ClickGenerate
    \/ Submit
    \/ Sleep
    \/ Poll
    \/ Timeout
    \/ Fetch

Spec == Init /\ [][Next]_vars

\* the steps of call_flux_api: the thread runs on, and every HTTP call returns or raises
ClientStep == Submit \/ Sleep \/ Poll \/ Timeout \/ Fetch

FairSpec == Spec /\ WF_vars(ClientStep)

(* ------------------------------- claims -------------------------------- *)

\* C1: when the submission gave an id and every status poll made was answered
\* with a status other than Ready and Failed, the call ends with the error
\* "Image generation timed out", no image, exactly 60 status polls and no image
\* fetch; before it ends it has made at most 60 polls.
C1_TimeoutAfterSixtyPolls ==
    (request_id # "<unbound>" /\ statusWrites = polls) =>
        /\ polls <= 60
        /\ pc = "done" =>
             /\ error = Str("Image generation timed out")
             /\ image = None
             /\ polls = 60
             /\ fetches = <<>>

C1_Witness ==
    /\ pc = "done"
    /\ polls = 60
    /\ statusWrites = 60
    /\ error = Str("Image generation timed out")

\* C2: the job state only moves forward, and once it is Ready, Failed or
\* TimedOut (60 pending polls) no further status poll is issued and the job
\* state stays what it is.
C2_ForwardOnly ==
    [][/\ JobRank(JobState') >= JobRank(JobState)
       /\ JobState \in {"Ready", "Failed", "TimedOut"} =>
            (polls' = polls /\ JobState' = JobState)]_vars

C2_Witness ==
    /\ pc = "done"
    /\ JobState = "Failed"
    /\ polls = 3

\* C3: when the first Ready status arrives on poll k after k-1 pending ones,
\* carries a `sample` URL, and the fetch returned 2xx with decodable bytes, the
\* call has issued exactly one image fetch, to that URL, and returns the
\* decoded image with no error after exactly k polls.
C3_ReadySampleReturnsImage ==
    (/\ pc = "done"
     /\ LastStatusIs("Ready")
     /\ "result" \in DOMAIN result
     /\ "sample" \in DOMAIN result.result
     /\ img_response.ok
     /\ Is2xx(img_response)
     /\ img_response.content \in ImageBytes) =>
        /\ fetches = <<result.result.sample>>
        /\ image = PILImage(img_response.content)
        /\ error = None
        /\ polls = statusWrites + 1
        /\ polls <= 60

C3_Witness ==
    /\ pc = "done"
    /\ LastStatusIs("Ready")
    /\ "result" \in DOMAIN result
    /\ "sample" \in DOMAIN result.result
    /\ image = PILImage("png-bytes")
    /\ polls = 3
    /\ statusWrites = 2
    /\ "samples" \in DOMAIN result.result
    /\ fetches = <<result.result.sample>>

\* C4 as stated: when the first Ready status arrives on poll k, the loop has
\* waited (k-1) intervals of 0.5 (the first poll is not preceded by a wait).
C4_WaitsBetweenAttemptsOnly ==
    LastStatusIs("Ready") => (elapsed = (polls - 1) * 5 /\ sleeps = polls - 1)

\* C4 amended: when the first Ready status arrives on poll k, the loop has
\* waited k intervals of 0.5: every poll, the first included, is preceded by
\* one wait.
C4_WaitBeforeEveryPoll ==
    /\ LastStatusIs("Ready") => (elapsed = polls * 5 /\ sleeps = polls)
    /\ pc = "poll" => sleeps = polls + 1

C4_Witness ==
    /\ LastStatusIs("Ready")
    /\ polls = 4
    /\ statusWrites = 3
    /\ elapsed = 20

\* C5: a 2xx submission reply whose JSON object has no `id` ends the call at
\* once with "No request ID in response", no image, and no status poll, no
\* wait and no image fetch.
C5_MissingId ==
    (/\ response.ok
     /\ Is2xx(response)
     /\ response.parses
     /\ "id" \notin DOMAIN response.value) =>
        /\ pc = "done"
        /\ error = Str("No request ID in response")
        /\ image = None
        /\ polls = 0
        /\ sleeps = 0
        /\ elapsed = 0
        /\ fetches = <<>>

C5_Witness ==
    /\ response = JsonReply(200, [detail |-> "Forbidden"])
    /\ pc = "done"
    /\ error = Str("No request ID in response")

\* C6: a non-2xx submission reply ends the call at once with an "API Error"
\* message that carries the parsed body when the body parses and the text of
\* the HTTP error otherwise, with no image, no status poll and no image fetch.
C6_SubmitHttpError ==
    (response.ok /\ ~Is2xx(response)) =>
        /\ pc = "done"
        /\ error.py = "str"
        /\ error.text = "API Error: "
        /\ IF response.parses
             THEN "json" \in DOMAIN error /\ error.json = response.value
             ELSE "arg" \in DOMAIN error /\ error.arg = HTTPErrorText(response)
        /\ image = None
        /\ polls = 0
        /\ fetches = <<>>

C6_Witness ==
    /\ response = JsonReply(403, [detail |-> "Forbidden"])
    /\ pc = "done"
    /\ error = StrJson("API Error: ", [detail |-> "Forbidden"])

\* C7: a Failed status ends the call at that poll with a "Generation failed"
\* message carrying the reply's `error` value when there is one and
\* "Unknown error" when there is none, with no image and no image fetch.
C7_FailedStatus ==
    LastStatusIs("Failed") =>
        /\ pc = "done"
        /\ error.py = "str"
        /\ error.text = "Generation failed: "
        /\ error.arg = (IF "error" \in DOMAIN result THEN result.error ELSE "Unknown error")
        /\ image = None
        /\ fetches = <<>>
        /\ polls = statusWrites + 1

C7_Witness ==
    /\ result = [status |-> "Failed", error |-> "bad prompt"]
    /\ pc = "done"
    /\ error = StrArg("Generation failed: ", "bad prompt")
    /\ polls = 2

\* C8: a Ready status whose result payload has neither `sample` nor `samples`
\* ends the call at that poll with the "Error processing API response" message
\* embedding the whole status reply, not with "Unexpected error", and without
\* any image fetch.
C8_ReadyWithoutUrl ==
    (/\ LastStatusIs("Ready")
     /\ "result" \in DOMAIN result
     /\ "sample" \notin DOMAIN result.result
     /\ "samples" \notin DOMAIN result.result) =>
        /\ pc = "done"
        /\ error.py = "str"
        /\ error.text = "Error processing API response: "
        /\ "response" \in DOMAIN error
        /\ error.response = result
        /\ image = None
        /\ fetches = <<>>
        /\ polls = statusWrites + 1

C8_Witness ==
    /\ result = [status |-> "Ready", result |-> [seed |-> 7]]
    /\ pc = "done"
    /\ error = StrResponse("Error processing API response: ", "'samples'", result)
    /\ polls = 2

\* the outcome categories a returned pair falls in
OutcomeCategories ==
    (IF image # None /\ image # Unbound THEN {"success"} ELSE {})
    \cup (IF error = None \/ error = Unbound THEN {}
          ELSE IF error.text = "No request ID in response" THEN {"missing id"}
          ELSE IF error.text = "API Error: " THEN {"HTTP error"}
          ELSE IF error.text = "Error processing API response: " THEN {"processing error"}
          ELSE IF error.text = "Generation failed: " THEN {"service-side failure"}
          ELSE IF error.text = "Image generation timed out" THEN {"timeout"}
          ELSE IF error.text = "Unexpected error: " THEN {"unexpected"}
          ELSE {"other"})

\* C9: a call that has ended has returned exactly once, either (image, None)
\* or (None, non-empty message), in exactly one of the seven outcome
\* categories; a call still running has returned nothing.
C9_OneOutcome ==
    Invoked =>
        IF pc = "done"
          THEN /\ returns = 1
               /\ \/ image.py = "Image" /\ error = None
                  \/ image = None /\ error.py = "str" /\ error.text # ""
               /\ Cardinality(OutcomeCategories) = 1
               /\ "other" \notin OutcomeCategories
          ELSE returns = 0 /\ image = Unbound /\ error = Unbound

C9_Witness ==
    /\ Invoked
    /\ pc = "done"
    /\ OutcomeCategories = {"timeout"}

\* C10: the call never makes more than 60 status polls, never waits more than
\* 30 time-units in all, and every wait is one interval of 0.5.
C10_BoundedPollsAndWaits ==
    /\ [](polls <= 60 /\ sleeps <= 60 /\ elapsed <= 300)
    /\ [][/\ sleeps' \in {sleeps, sleeps + 1}
          /\ elapsed' = elapsed + 5 * (sleeps' - sleeps)]_vars

C10_Witness ==
    /\ polls = 60
    /\ sleeps = 60
    /\ elapsed = 300

\* a request that failed in transport: the service was unreachable, or it
\* answered with a non-success HTTP status
TransportFailure(r) == r = ConnectionError \/ (r.ok /\ ~Is2xx(r))

\* C11: a transport failure of the submission or of a status poll ends the
\* call with the "API Error" outcome and no image; after a poll answered with
\* a non-success status no further poll and no image fetch is made.
C11_TransportFailureIsApiError ==
    /\ TransportFailure(response) =>
         (pc = "done" /\ error.py = "str" /\ error.text = "API Error: " /\ image = None)
    /\ TransportFailure(poll_response) =>
         (/\ pc = "done"
          /\ error.py = "str"
          /\ error.text = "API Error: "
          /\ image = None
          /\ fetches = <<>>)

\* C12: a click on the button with an empty prompt shows the validation error
\* and issues no submission, poll or image fetch; the client is called only
\* with a non-empty prompt.
C12_EmptyPromptNoCall ==
    /\ (prompt = "" /\ pc # "idle") =>
         /\ pc = "done"
         /\ shown = "validation"
         /\ ~Invoked
         /\ posts = 0
         /\ polls = 0
         /\ fetches = <<>>
    /\ (Invoked \/ posts > 0 \/ polls > 0 \/ fetches # <<>>) =>
         (prompt # "" /\ payload.prompt = prompt /\ shown # "validation")

C12_Witness ==
    /\ prompt = ""
    /\ pc = "done"
    /\ shown = "validation"
    /\ posts = 0

\* the table of the five presets
PresetTable ==
    [p \in AspectOptions |->
       CASE p = "Square (1:1)" -> [width |-> 1024, height |-> 1024]
         [] p = "Portrait (3:4)" -> [width |-> 768, height |-> 1024]
         [] p = "Landscape (4:3)" -> [width |-> 1024, height |-> 768]
         [] p = "Wide (16:9)" -> [width |-> 1024, height |-> 576]
         [] p = "Tall (9:16)" -> [width |-> 576, height |-> 1024]]

\* C13: the width and height handed to the client are the pair the table
\* gives for the selected preset, hence always one of the five pairs.
C13_AspectPresets ==
    Invoked =>
        /\ payload.width = PresetTable[aspect_ratio].width
        /\ payload.height = PresetTable[aspect_ratio].height
        /\ <<payload.width, payload.height>> \in
             {<<1024, 1024>>, <<768, 1024>>, <<1024, 768>>, <<1024, 576>>, <<576, 1024>>}

C13_Witness ==
    /\ Invoked
    /\ posts = 1
    /\ aspect_ratio = "Portrait (3:4)"
    /\ payload.width = 768
    /\ payload.height = 1024

\* C14: when the image fetch after a Ready status is answered with a non-2xx
\* status, or with bytes that do not decode, the call ends with the
\* "Error processing API response" message carrying the exception text and
\* the whole status reply, not with "API Error", after one fetch and with no
\* further poll.
C14_FetchFailureIsProcessingError ==
    (/\ img_response.ok
     /\ (~Is2xx(img_response) \/ img_response.content \notin ImageBytes)) =>
        /\ pc = "done"
        /\ LastStatusIs("Ready")
        /\ error.py = "str"
        /\ error.text = "Error processing API response: "
        /\ "response" \in DOMAIN error
        /\ error.response = result
        /\ error.arg = (IF ~Is2xx(img_response) THEN HTTPErrorText(img_response)
                        ELSE "cannot identify image file")
        /\ image = None
        /\ Len(fetches) = 1
        /\ polls = statusWrites + 1

C14_Witness ==
    /\ img_response = [ok |-> TRUE, status_code |-> 404, content |-> "png-bytes"]
    /\ pc = "done"
    /\ error = StrResponse("Error processing API response: ", "Client Error", result)
    /\ polls = 2

\* C15: a Ready status with no `sample` and an empty `samples` list ends the
\* call at that poll with the "Error processing API response" message
\* embedding the whole status reply: not "Unexpected error", no image fetch,
\* no further poll.
C15_ReadyEmptySamples ==
    (/\ LastStatusIs("Ready")
     /\ "result" \in DOMAIN result
     /\ "sample" \notin DOMAIN result.result
     /\ "samples" \in DOMAIN result.result
     /\ result.result.samples = <<>>) =>
        /\ pc = "done"
        /\ error.py = "str"
        /\ error.text = "Error processing API response: "
        /\ "response" \in DOMAIN error
        /\ error.response = result
        /\ image = None
        /\ fetches = <<>>
        /\ polls = statusWrites + 1

C15_Witness ==
    /\ result = [status |-> "Ready", result |-> [samples |-> <<>>]]
    /\ pc = "done"
    /\ error = StrResponse("Error processing API response: ", "list index out of range", result)
    /\ polls = 2

\* C16: the URL fetched on a Ready status is `sample` when the result has
\* one, also when it has `samples` too, and the first entry of `samples`
\* otherwise; nothing else is fetched.
C16_UrlPrecedence ==
    (pc = "fetch" \/ fetches # <<>>) =>
        /\ LastStatusIs("Ready")
        /\ "result" \in DOMAIN result
        /\ img_url = (IF "sample" \in DOMAIN result.result
                        THEN result.result.sample
                        ELSE result.result.samples[1])
        /\ fetches \in {<<>>, <<img_url>>}

C16_Witness ==
    /\ pc = "done"
    /\ result = [status |-> "Ready",
                 result |-> [sample |-> "https://img/a",
                             samples |-> <<"https://img/b", "https://img/b">>]]
    /\ fetches = <<"https://img/a">>

\* C17: the requests go submit, polls, fetch: one submission, before every
\* poll; polls only after a submission reply with an `id`, all carrying that
\* id; at most one image fetch, right after the poll that returned Ready, and
\* no poll after it.
C17_RequestOrder ==
    /\ [](/\ posts <= 1
          /\ Len(fetches) <= 1
          /\ (Invoked /\ pc # "submit") => posts = 1
          /\ polls > 0 =>
               /\ posts = 1
               /\ response.ok /\ Is2xx(response) /\ response.parses
               /\ "id" \in DOMAIN response.value
               /\ pollIds = {response.value.id}
          /\ fetches # <<>> =>
               /\ polls > 0
               /\ LastStatusIs("Ready")
               /\ poll_response.ok /\ poll_response.parses
               /\ poll_response.value = result)
    /\ [][/\ posts' # posts => (polls = 0 /\ fetches = <<>>)
          /\ polls' # polls => (posts = 1 /\ fetches = <<>> /\ fetches' = <<>>)
          /\ fetches' # fetches =>
               (polls' = polls /\ LastStatusIs("Ready") /\ polls = statusWrites + 1)]_vars

C17_Witness ==
    /\ pc = "done"
    /\ posts = 1
    /\ polls = 3
    /\ pollIds = {"job-2"}
    /\ Len(fetches) = 1

\* C18: a status reply without a `status` field, or one whose body does not
\* decode, ends the call at that attempt with the "Unexpected error" message:
\* it is not counted as pending, no further poll follows, no image is returned.
C18_MissingStatusIsUnexpected ==
    (/\ poll_response.ok
     /\ (~poll_response.parses \/ "status" \notin DOMAIN poll_response.value)) =>
        /\ pc = "done"
        /\ error.py = "str"
        /\ error.text = "Unexpected error: "
        /\ error.arg = (IF poll_response.parses THEN "'status'" ELSE "JSONDecodeError")
        /\ image = None
        /\ fetches = <<>>
        /\ polls = statusWrites + 1

C18_Witness ==
    /\ poll_response = JsonReply(200, [detail |-> "Not Found"])
    /\ pc = "done"
    /\ error = StrArg("Unexpected error: ", "'status'")
    /\ polls = 3

\* C19: every call of the client eventually ends with one returned outcome,
\* whatever the service answers, given that every HTTP call returns or raises.
C19_Terminates == Invoked ~> (pc = "done" /\ returns = 1)

C19_Witness ==
    /\ Invoked
    /\ pc = "done"
    /\ returns = 1
    /\ polls = 60
    /\ image = PILImage("png-bytes")

====
